---- MODULE Spec2Model ----
(***************************************************************************)
(* Model of build.py, the CCPM build script: build mode packages every     *)
(* directory of ./packages into ./pool/<name>.<version>.ccp and merges it   *)
(* into ./pool/index.json; repair mode rebuilds index.json from the pool.   *)
(*                                                                          *)
(* Strings that the code cuts or joins (package names, versions, file       *)
(* names) are sequences of one-character strings.  Other strings are       *)
(* opaque.  A Python str is some value X, the bytes of its UTF-8 encoding   *)
(* are [utf8 |-> X]; each codec layer wraps its input in a record, so that  *)
(* a decoder applied to the wrong layer is visible.                         *)
(***************************************************************************)
EXTENDS Naturals, Sequences, FiniteSets, TLC

VARIABLES
    srcOrder,      \* os.scandir(PACKAGES_ROOT_SRC_DIR): package names in scan order
    srcManifest,   \* ./packages/<name>/manifest.json, per package name
    srcFiles,      \* ./packages/<name>/source/**, per package name: path -> content
    pool,          \* ./pool/*.ccp: file name -> stored text
    indexFile,     \* ./pool/index.json: NoFile or its text
    pc,            \* "idle" | "loop" (build mode, in the for of line 212) | "done"
    mode,          \* args.repair of the current or last run: "build" | "repair" | "none"
    packages,      \* the module-level dict `packages` (line 202)
    queue,         \* names the for loop of line 212 has still to visit
    name,          \* loop variable `name` of line 212 (<<>> before the first iteration)
    package,       \* loop variable `package` of line 213
    exitCode,      \* exit status of the last run: "none" | "0" | "1"
    error,         \* the exception `except Exception as e` caught in this run, or ""
    budget,        \* how many more runs and changes of the directories are explored
    \* observations of the current run, not program state
    poolAtStart,   \* pool when the run started
    indexAtStart,  \* indexFile when the run started
    written,       \* <<name, file name>> for every archive this run opened for writing
    manifestsRead, \* names get_manifest was called with in this run
    indexWrites,   \* how many times this run wrote index.json
    rerun,         \* this build run directly follows a build run, nothing changed between
    hist           \* "fresh": no run yet; "builds": only successful build runs so far;
                   \* "builds_repair": such runs, then one repair run; "other"

vars == <<srcOrder, srcManifest, srcFiles, pool, indexFile, pc, mode, packages,
          queue, name, package, exitCode, error, budget, poolAtStart, indexAtStart,
          written, manifestsRead, indexWrites, rerun, hist>>

-----------------------------------------------------------------------------
(* Program constants *)

MANIFEST_FIELDS ==
    <<"description", "license", "authors", "maintainers", "version", "dependencies">>

FieldSet == {MANIFEST_FIELDS[i] : i \in 1..Len(MANIFEST_FIELDS)}

Sep == "."

Ext == <<".", "c", "c", "p">>

-----------------------------------------------------------------------------
(* Inputs: the source trees the runs are tried on *)

Names == {<<"a">>, <<"a", ".", "b">>, <<"c">>}

Versions == {<<"1">>, <<"b", ".", "1">>}

Descriptions == {"d1", "d2"}

\* runs and changes explored from a source tree with an unusual manifest
MaxEventsWide == 2

\* runs and changes explored from a source tree of two well-formed packages
MaxEventsLong == 4

\* A JSON object manifest with the fields `keys`.
ManifestObj(keys, d, v) ==
    [k \in keys |->
        IF k = "description" THEN d
        ELSE IF k = "version" THEN v
        ELSE IF k = "dependencies" THEN <<>>
        ELSE "x"]

NoObj == [k \in {} |-> "x"]

FullManifests ==
    {[kind |-> "json", obj |-> ManifestObj(FieldSet, "d1", <<"1">>)],
     [kind |-> "json", obj |-> ManifestObj(FieldSet, "d2", <<"b", ".", "1">>)]}

\* manifest.json as found on disk: absent, not JSON, not openable, or a JSON object
\* with all the recognized fields or all but one
ManifestFiles ==
    {[kind |-> "missing", obj |-> NoObj],
     [kind |-> "unreadable", obj |-> NoObj],
     [kind |-> "denied", obj |-> NoObj]}
    \cup FullManifests
    \cup {[kind |-> "json", obj |-> ManifestObj(FieldSet \ {k}, "d1", <<"1">>)] :
            k \in FieldSet}

\* what a manifest is changed to between two runs
EditChoices ==
    {[kind |-> "missing", obj |-> NoObj], [kind |-> "denied", obj |-> NoObj]}
    \cup FullManifests

\* ./packages/<name>/source of each package: one file, or none
FileTree(n) ==
    IF n = <<"a", ".", "b">> THEN [p \in {} |-> "hello"]
    ELSE [p \in {"a.txt"} |-> "hello"]

-----------------------------------------------------------------------------
(* Results of a call: a value, None, or a raised exception *)

Ok(v) == [exc |-> "", none |-> FALSE, val |-> v]

None == [exc |-> "", none |-> TRUE, val |-> <<>>]

Raise(e) == [exc |-> e, none |-> FALSE, val |-> <<>>]

IsValue(r) == r.exc = "" /\ ~r.none

-----------------------------------------------------------------------------
(* Codec and digest primitives *)

\* json.dumps(obj): the JSON text of obj
json_dumps(obj) == [json |-> obj]

\* str.encode(): UTF-8 bytes of a str
str_encode(s) == [utf8 |-> s]

\* bytes.decode(): the str of UTF-8 bytes
bytes_decode(b) == b.utf8

\* zlib.compress(b, level=Z_BEST_COMPRESSION)
zlib_compress(b) == [zlib |-> b]

\* base64.b64encode(b): ASCII bytes
b64encode(b) == str_encode([b64 |-> b])

\* hashlib.sha256(b).hexdigest(): injective on the byte strings of the model
sha256(b) == [sha256 |-> b]

\* base64.b64decode(s) of a str: a character outside ASCII is a plain ValueError,
\* any other text that is not base64 a binascii.Error
b64decode(s) ==
    IF "b64" \in DOMAIN s THEN Ok(s.b64)
    ELSE IF "raw" \in DOMAIN s /\ s.raw = "non-ascii" THEN Raise("ValueError")
    ELSE Raise("binascii.Error")

\* zlib.decompress(b)
zlib_decompress(b) ==
    IF "zlib" \in DOMAIN b THEN Ok(b.zlib) ELSE Raise("zlib.error")

\* json.loads(x) of a str or of UTF-8 bytes
json_loads(x) ==
    LET text == IF "utf8" \in DOMAIN x THEN bytes_decode(x) ELSE x
    IN  IF "json" \in DOMAIN text THEN Ok(text.json) ELSE Raise("JSONDecodeError")

\* Texts that are not the output of the codec
NotBase64 == [raw |-> "garbage"]

NotAscii == [raw |-> "non-ascii"]

NotZlib == [b64 |-> [raw |-> "garbage"]]

NotJson == [b64 |-> zlib_compress(str_encode([raw |-> "garbage"]))]

CorruptTexts == {NotBase64, NotAscii, NotZlib, NotJson}

NoFile == [nofile |-> TRUE]

Exists(f) == "nofile" \notin DOMAIN f

-----------------------------------------------------------------------------
(* File system helpers *)

\* a plausible slip: the archive is opened with mode="a"
WriteFileAppend(fs, fname, text) ==
    [f \in DOMAIN fs \cup {fname} |->
        IF f # fname THEN fs[f]
        ELSE IF fname \in DOMAIN fs THEN [cat |-> <<fs[fname], text>>]
        ELSE text]

\* open(path, mode="w") ... file.write(text): the file holds exactly text
WriteFile(fs, fname, text) ==
    [f \in DOMAIN fs \cup {fname} |-> IF f = fname THEN text ELSE fs[f]]

FileName(n, v) == n \o <<Sep>> \o v \o Ext

EmptyDir == [f \in {} |-> NotBase64]

-----------------------------------------------------------------------------
(* Functions of build.py *)

\* get_source_packages(): the names of the entries of ./packages, in scan order
get_source_packages == srcOrder

\* entry.name[:-4].split(".", maxsplit=1): a list of one or two strings
SplitFirst(s) ==
    LET stem == SubSeq(s, 1, Len(s) - 4)
        dots == {i \in 1..Len(stem) : stem[i] = Sep}
    IN  IF dots = {}
        THEN <<stem>>
        ELSE LET i == CHOOSE i \in dots : \A j \in dots : i <= j
             IN  <<SubSeq(stem, 1, i - 1), SubSeq(stem, i + 1, Len(stem))>>

\* rtn[name].append(version) / rtn[name] = [version]; rtn is a dict in insertion
\* order, here the sequence of its <<name, versions>> items
Group(rtn, n, v) ==
    IF \E i \in 1..Len(rtn) : rtn[i][1] = n
    THEN [i \in 1..Len(rtn) |->
            IF rtn[i][1] = n THEN <<n, Append(rtn[i][2], v)>> ELSE rtn[i]]
    ELSE Append(rtn, <<n, <<v>>>>)

RECURSIVE ScanPool(_, _, _)
ScanPool(entries, i, rtn) ==
    IF i > Len(entries)
    THEN Ok(rtn)
    ELSE LET parts == SplitFirst(entries[i])
         IN  IF Len(parts) < 2
             THEN Raise("ValueError")
             ELSE ScanPool(entries, i + 1, Group(rtn, parts[1], parts[2]))

\* get_built_packages(), entries being the archive files of ./pool in scan order
\* (index.json, filtered out at line 53, is kept apart in indexFile)
get_built_packages(entries) == ScanPool(entries, 1, <<>>)

\* a plausible slip: the FileNotFoundError of open() is not caught
get_manifest_uncaught(n) ==
    LET f == srcManifest[n]
    IN  IF f.kind = "missing" THEN Raise("FileNotFoundError")
        ELSE IF f.kind = "unreadable" THEN None
        ELSE IF f.kind = "denied" THEN Raise("PermissionError")
        ELSE Ok(f.obj)

\* get_manifest(name)
get_manifest(n) ==
    LET f == srcManifest[n]
    IN  IF f.kind = "missing" THEN None            \* FileNotFoundError, caught
        ELSE IF f.kind = "unreadable" THEN None    \* json.JSONDecodeError, caught
        ELSE IF f.kind = "denied" THEN Raise("PermissionError")
        ELSE Ok(f.obj)

\* manifest["files"][path] = {"content": ..., "digest": ...} for every source file
PackageFiles(n) ==
    [p \in DOMAIN srcFiles[n] |->
        [content |-> srcFiles[n][p],
         digest |-> sha256(str_encode(srcFiles[n][p]))]]

\* build_package(name)
build_package(n) ==
    LET m == get_manifest(n)
    IN  IF ~IsValue(m)
        THEN m
        ELSE Ok([k \in DOMAIN m.val \cup {"files"} |->
                    IF k = "files" THEN PackageFiles(n) ELSE m.val[k]])

\* compress(package)
compress(pkg) == b64encode(zlib_compress(str_encode(json_dumps(pkg))))

\* build_and_write_package(name): its result, the pool it leaves and what it wrote
build_and_write_package(n) ==
    LET p == build_package(n)
    IN  IF ~IsValue(p)
        THEN [res |-> p, pool |-> pool, wrote |-> {}]
        ELSE LET data == compress(p.val)
             IN  IF "version" \notin DOMAIN p.val
                 THEN [res |-> Raise("KeyError"), pool |-> pool, wrote |-> {}]
                 ELSE LET fname == FileName(n, p.val["version"])
                      IN  [res |-> Ok([manifest |-> p.val, digest |-> sha256(data)]),
                           pool |-> WriteFile(pool, fname, bytes_decode(data)),
                           wrote |-> {<<n, fname>>}]

\* the except clauses of read_package (lines 154-162)
CaughtOnRead == {"FileNotFoundError", "JSONDecodeError", "zlib.error", "binascii.Error"}

\* a plausible slip: the digest is taken of the decoded bytes, not of the stored text
read_package_decoded_digest(fs, n, v) ==
    LET fname == FileName(n, v)
    IN  IF fname \notin DOMAIN fs
        THEN None
        ELSE LET data == fs[fname]
                 raw == b64decode(data)
                 txt == IF raw.exc = "" THEN zlib_decompress(raw.val) ELSE raw
                 man == IF txt.exc = "" THEN json_loads(txt.val) ELSE txt
             IN  IF man.exc \in CaughtOnRead
                 THEN None
                 ELSE IF man.exc # ""
                 THEN man
                 ELSE Ok([manifest |-> man.val, digest |-> sha256(raw.val)])

\* read_package(name, version) on the pool fs
read_package(fs, n, v) ==
    LET fname == FileName(n, v)
    IN  IF fname \notin DOMAIN fs
        THEN None                                   \* FileNotFoundError
        ELSE LET data == fs[fname]
                 raw == b64decode(data)
                 txt == IF raw.exc = "" THEN zlib_decompress(raw.val) ELSE raw
                 man == IF txt.exc = "" THEN json_loads(txt.val) ELSE txt
             IN  IF man.exc \in CaughtOnRead
                 THEN None
                 ELSE IF man.exc # ""
                 THEN man                           \* no except clause matches
                 ELSE Ok([manifest |-> man.val,
                          digest |-> sha256(str_encode(data))])

NewEntry == [description |-> "", versions |-> <<>>, latest_version |-> <<>>]

\* a plausible slip: the entry is created anew on every build of the package
IndexUpsertAnew(pkgs, n, pkg) ==
    LET m == pkg.manifest
    IN  IF "description" \notin DOMAIN m \/ "version" \notin DOMAIN m
           \/ "dependencies" \notin DOMAIN m
        THEN Raise("KeyError")
        ELSE LET v == m["version"]
                 e == [description |-> m["description"],
                       versions |->
                          [w \in {v} |-> [digest |-> pkg.digest,
                                          dependencies |-> m["dependencies"]]],
                       latest_version |-> v]
             IN  Ok([x \in DOMAIN pkgs \cup {n} |-> IF x = n THEN e ELSE pkgs[x]])

\* a KeyError raised while `packages` holds pkgs
RaiseWith(e, pkgs) == [exc |-> e, none |-> FALSE, val |-> pkgs]

\* the body of `if package is not None:` in the build loop (lines 215-228); when a
\* statement raises, val is the dict as the statements before it left it
IndexUpsert(pkgs, n, pkg) ==
    LET m == pkg.manifest
        old == IF n \in DOMAIN pkgs THEN pkgs[n] ELSE NewEntry
        With(e) == [x \in DOMAIN pkgs \cup {n} |-> IF x = n THEN e ELSE pkgs[x]]
    IN  IF "description" \notin DOMAIN m
        THEN RaiseWith("KeyError", With(old))
        ELSE IF "dependencies" \notin DOMAIN m \/ "version" \notin DOMAIN m
        THEN RaiseWith("KeyError", With([old EXCEPT !.description = m["description"]]))
        ELSE LET v == m["version"]
                 e == [description |-> m["description"],
                       versions |->
                          [w \in DOMAIN old.versions \cup {v} |->
                              IF w = v
                              THEN [digest |-> pkg.digest,
                                    dependencies |-> m["dependencies"]]
                              ELSE old.versions[w]],
                       latest_version |-> v]
             IN  Ok(With(e))

\* the body of `if package is not None:` in repair_package_index (lines 174-189)
RepairUpsert(pkgs, n, v, pkg) ==
    LET m == pkg.manifest
        old == IF n \in DOMAIN pkgs THEN pkgs[n] ELSE NewEntry
    IN  IF "description" \notin DOMAIN m \/ "dependencies" \notin DOMAIN m
        THEN Raise("KeyError")
        ELSE LET e == [description |-> m["description"],
                       versions |->
                          [w \in DOMAIN old.versions \cup {v} |->
                              IF w = v
                              THEN [digest |-> pkg.digest,
                                    dependencies |-> m["dependencies"]]
                              ELSE old.versions[w]],
                       latest_version |-> v]
             IN  Ok([x \in DOMAIN pkgs \cup {n} |-> IF x = n THEN e ELSE pkgs[x]])

\* the inner loop `for version in versions` (lines 171-189)
RECURSIVE RepairVersions(_, _, _, _, _)
RepairVersions(fs, n, versions, j, pkgs) ==
    IF j > Len(versions)
    THEN Ok(pkgs)
    ELSE LET pkg == read_package(fs, n, versions[j])
         IN  IF pkg.exc # ""
             THEN pkg
             ELSE IF pkg.none
             THEN RepairVersions(fs, n, versions, j + 1, pkgs)
             ELSE LET up == RepairUpsert(pkgs, n, versions[j], pkg.val)
                  IN  IF up.exc # ""
                      THEN up
                      ELSE RepairVersions(fs, n, versions, j + 1, up.val)

\* the outer loop `for name, versions in get_built_packages().items()`
RECURSIVE RepairNames(_, _, _, _)
RepairNames(fs, built, i, pkgs) ==
    IF i > Len(built)
    THEN Ok(pkgs)
    ELSE LET r == RepairVersions(fs, built[i][1], built[i][2], 1, pkgs)
         IN  IF r.exc # "" THEN r ELSE RepairNames(fs, built, i + 1, r.val)

EmptyIndex == [x \in {} |-> NewEntry]

\* repair_package_index(), the pool fs being listed in the order `entries`
repair_package_index(fs, entries) ==
    LET built == get_built_packages(entries)
    IN  IF built.exc # "" THEN built ELSE RepairNames(fs, built.val, 1, EmptyIndex)

-----------------------------------------------------------------------------
(* The state machine *)

Perms(S) ==
    {s \in [1..Cardinality(S) -> S] : \A i, j \in DOMAIN s : i # j => s[i] # s[j]}

\* every package present, at most one of them without a full manifest
WideTrees ==
    {m \in [Names -> ManifestFiles] :
        Cardinality({n \in Names : m[n] \notin FullManifests}) <= 1}

\* two packages present, both with a full manifest
LongTrees ==
    UNION {[S -> FullManifests] : S \in {T \in SUBSET Names : Cardinality(T) = 2}}

Init ==
    /\ \/ srcManifest \in WideTrees /\ budget = MaxEventsWide
       \/ srcManifest \in LongTrees /\ budget = MaxEventsLong
    /\ srcOrder \in Perms(DOMAIN srcManifest)
    /\ srcFiles = [n \in DOMAIN srcManifest |-> FileTree(n)]
    /\ pool = EmptyDir
    /\ indexFile = NoFile
    /\ pc = "idle"
    /\ mode = "none"
    /\ packages = EmptyIndex
    /\ queue = <<>>
    /\ name = <<>>
    /\ package = None
    /\ exitCode = "none"
    /\ error = ""
    /\ poolAtStart = EmptyDir
    /\ indexAtStart = NoFile
    /\ written = {}
    /\ manifestsRead = {}
    /\ indexWrites = 0
    /\ rerun = FALSE
    /\ hist = "fresh"

CanStart == pc \in {"idle", "done"} /\ budget > 0

\* a plausible slip: the handler falls through to the write of lines 234-236
AbortThenWrite(e, w) ==
    /\ pc' = "done"
    /\ exitCode' = "1"
    /\ error' = e
    /\ queue' = <<>>
    /\ hist' = "other"
    /\ indexFile' = json_dumps(packages)
    /\ indexWrites' = w + 1

\* `except Exception as e` of lines 229-232: print, exit(1); index.json is not written
\* (w: how many times the run has written it so far)
Abort(e, w) ==
    /\ pc' = "done"
    /\ exitCode' = "1"
    /\ error' = e
    /\ queue' = <<>>
    /\ hist' = "other"
    /\ indexWrites' = w
    /\ UNCHANGED indexFile

\* a plausible slip: an unparseable index is taken for an empty one
LoadIndexLenient(f) ==
    IF Exists(f) /\ json_loads(f).exc = "" THEN json_loads(f) ELSE Ok(EmptyIndex)

\* prior index of build mode (lines 208-210)
LoadIndex(f) == IF Exists(f) THEN json_loads(f) ELSE Ok(EmptyIndex)

\* __main__ without --repair, up to the for statement of line 212
StartBuild ==
    /\ CanStart
    /\ budget' = budget - 1
    /\ mode' = "build"
    /\ rerun' = (pc = "done" /\ mode = "build")
    /\ poolAtStart' = pool
    /\ indexAtStart' = indexFile
    /\ written' = {}
    /\ manifestsRead' = {}
    /\ name' = <<>>
    /\ package' = None
    /\ LET prior == LoadIndex(indexFile)
       IN  IF prior.exc # ""
           THEN /\ packages' = EmptyIndex
                /\ Abort(prior.exc, 0)
           ELSE /\ packages' = prior.val
                /\ queue' = get_source_packages
                /\ pc' = "loop"
                /\ exitCode' = "none"
                /\ error' = ""
                /\ indexWrites' = 0
                /\ UNCHANGED <<indexFile, hist>>
    /\ UNCHANGED <<srcOrder, srcManifest, srcFiles, pool>>

\* one iteration of the for loop of lines 212-228
BuildStep ==
    /\ pc = "loop"
    /\ queue # <<>>
    /\ LET n == Head(queue)
           r == build_and_write_package(n)
           up == IF IsValue(r.res) THEN IndexUpsert(packages, n, r.res.val)
                 ELSE Ok(packages)
       IN  /\ name' = n
           /\ package' = r.res
           /\ pool' = r.pool
           /\ written' = written \cup r.wrote
           /\ manifestsRead' = manifestsRead \cup {n}
           /\ IF r.res.exc # "" \/ up.exc # ""
              THEN /\ Abort(IF r.res.exc # "" THEN r.res.exc ELSE up.exc, indexWrites)
                   /\ packages' = up.val
              ELSE /\ packages' = up.val
                   /\ queue' = Tail(queue)
                   /\ UNCHANGED <<pc, exitCode, error, indexFile, indexWrites, hist>>
    /\ UNCHANGED <<srcOrder, srcManifest, srcFiles, mode, budget, poolAtStart,
                   indexAtStart, rerun>>

\* lines 234-236 once the loop is over
WriteIndex ==
    /\ pc = "loop"
    /\ queue = <<>>
    /\ indexFile' = json_dumps(packages)
    /\ indexWrites' = indexWrites + 1
    /\ pc' = "done"
    /\ exitCode' = "0"
    /\ hist' = IF hist \in {"fresh", "builds"} THEN "builds" ELSE "other"
    /\ UNCHANGED <<srcOrder, srcManifest, srcFiles, pool, mode, packages, queue,
                   name, package, error, budget, poolAtStart, indexAtStart, written,
                   manifestsRead, rerun>>

\* __main__ with --repair: repair_package_index, then lines 234-236
Repair ==
    /\ CanStart
    /\ budget' = budget - 1
    /\ mode' = "repair"
    /\ rerun' = FALSE
    /\ poolAtStart' = pool
    /\ indexAtStart' = indexFile
    /\ written' = {}
    /\ manifestsRead' = {}
    /\ name' = <<>>
    /\ package' = None
    /\ queue' = <<>>
    /\ pc' = "done"
    /\ \E entries \in Perms(DOMAIN pool) :
          LET r == repair_package_index(pool, entries)
          IN  IF r.exc # ""
              THEN /\ packages' = EmptyIndex
                   /\ exitCode' = "1"
                   /\ error' = r.exc
                   /\ hist' = "other"
                   /\ indexWrites' = 0
                   /\ UNCHANGED indexFile
              ELSE /\ packages' = r.val
                   /\ exitCode' = "0"
                   /\ error' = ""
                   /\ hist' = IF hist = "builds" THEN "builds_repair" ELSE "other"
                   /\ indexWrites' = 1
                   /\ indexFile' = json_dumps(r.val)
    /\ UNCHANGED <<srcOrder, srcManifest, srcFiles, pool>>

\* what every change made between two runs leaves of the last run
Forget ==
    /\ pc' = "idle"
    /\ mode' = "none"
    /\ exitCode' = "none"
    /\ error' = ""
    /\ packages' = EmptyIndex
    /\ queue' = <<>>
    /\ name' = <<>>
    /\ package' = None
    /\ budget' = budget - 1
    /\ poolAtStart' = pool'
    /\ indexAtStart' = indexFile'
    /\ written' = {}
    /\ manifestsRead' = {}
    /\ indexWrites' = 0
    /\ rerun' = FALSE

\* the packager edits or deletes a manifest between two runs
EditManifest ==
    /\ CanStart
    /\ \E n \in DOMAIN srcManifest, m \in EditChoices :
          /\ m # srcManifest[n]
          /\ srcManifest' = [srcManifest EXCEPT ![n] = m]
    /\ UNCHANGED <<srcOrder, srcFiles, pool, indexFile, hist>>
    /\ Forget

\* an archive of the pool is damaged between two runs
CorruptArchive ==
    /\ CanStart
    /\ \E f \in DOMAIN pool, t \in CorruptTexts :
          /\ pool[f] # t
          /\ pool' = [pool EXCEPT ![f] = t]
    /\ hist' = "other"
    /\ UNCHANGED <<srcOrder, srcManifest, srcFiles, indexFile>>
    /\ Forget

\* index.json is damaged between two runs
CorruptIndex ==
    /\ CanStart
    /\ indexFile # NotBase64
    /\ indexFile' = NotBase64
    /\ hist' = "other"
    /\ UNCHANGED <<srcOrder, srcManifest, srcFiles, pool>>
    /\ Forget

Next ==
    \/ StartBuild
    \/ BuildStep
    \/ WriteIndex
    \/ Repair
    \/ EditManifest
    \/ CorruptArchive
    \/ CorruptIndex

Spec == Init /\ [][Next]_vars

-----------------------------------------------------------------------------
(* Vocabulary of the properties *)

BuildDone == pc = "done" /\ mode = "build"

\* the index the run started from, and the one it left
PriorIndex == LoadIndex(indexAtStart)

FinalIndex == json_loads(indexFile).val

\* index.json was there when the run started and was not JSON
PriorUnparseable == Exists(indexAtStart) /\ "json" \notin DOMAIN indexAtStart

HasAllFields(n) ==
    srcManifest[n].kind = "json" /\ FieldSet \subseteq DOMAIN srcManifest[n].obj

NoManifest(n) == srcManifest[n].kind \in {"missing", "unreadable"}

DeclaredVersion(n) == srcManifest[n].obj["version"]

\* names for which this run wrote an archive
BuiltNames == {w[1] : w \in written}

\* the source tree of the partial failure scenario: k is broken, the others valid
OneBroken(k) ==
    /\ k \in DOMAIN srcManifest
    /\ NoManifest(k)
    /\ \A n \in DOMAIN srcManifest \ {k} : HasAllFields(n)

\* (name, version) pairs of an index
IndexPairs(idx) ==
    UNION {{<<n, v>> : v \in DOMAIN idx[n].versions} : n \in DOMAIN idx}

-----------------------------------------------------------------------------
(* Properties *)

\* C1: partial failure isolation in build mode.  When one package k of the source
\* tree has a missing or unparseable manifest and every other package has a full
\* manifest, a build run (started from an absent or parseable index) ends with exit
\* code 0, has written the archive <name>.<version>.ccp of every other package and
\* none for k, and leaves an index with an entry for every other package holding
\* its declared version, while k has exactly the entry it had before, if any,
\* wherever k comes in the scan order.
C1_PartialFailureIsolation ==
    \A k \in DOMAIN srcManifest :
        (BuildDone /\ PriorIndex.exc = "" /\ OneBroken(k)) =>
            /\ exitCode = "0"
            /\ indexWrites = 1
            /\ k \notin BuiltNames
            /\ k \in DOMAIN FinalIndex <=> k \in DOMAIN PriorIndex.val
            /\ k \in DOMAIN PriorIndex.val => FinalIndex[k] = PriorIndex.val[k]
            /\ \A n \in DOMAIN srcManifest \ {k} :
                  /\ <<n, FileName(n, DeclaredVersion(n))>> \in written
                  /\ FileName(n, DeclaredVersion(n)) \in DOMAIN pool
                  /\ n \in DOMAIN FinalIndex
                  /\ DeclaredVersion(n) \in DOMAIN FinalIndex[n].versions
                  /\ FinalIndex[n].latest_version = DeclaredVersion(n)

\* a run over three packages whose second one has no usable manifest has ended
C1_Witness ==
    /\ BuildDone
    /\ exitCode = "0"
    /\ Len(srcOrder) = 3
    /\ OneBroken(srcOrder[2])
    /\ Cardinality(written) = 2
    /\ DOMAIN FinalIndex = {srcOrder[1], srcOrder[3]}

\* C2: a manifest that lacks one recognized key is only warned about.  A build run
\* over a tree whose manifests all open (each is absent, unparseable, or a JSON
\* object, possibly without one of the keys) visits every package, builds the one
\* with the incomplete manifest, writes the index and exits with code 0.
C2_MissingKeyNonFatal ==
    (BuildDone /\ PriorIndex.exc = ""
        /\ \A n \in DOMAIN srcManifest : srcManifest[n].kind # "denied") =>
        /\ exitCode = "0"
        /\ indexWrites = 1
        /\ manifestsRead = DOMAIN srcManifest
        /\ \A n \in DOMAIN srcManifest :
              srcManifest[n].kind = "json" => n \in BuiltNames

\* C3: incremental preservation.  After a build run that exits 0, every package
\* of the prior index for which this run wrote no archive has the entry it had,
\* and a package that was rebuilt keeps every prior version entry other than the
\* one of the version just built.
C3_IncrementalPreservation ==
    (BuildDone /\ exitCode = "0") =>
        \A n \in DOMAIN PriorIndex.val :
            /\ n \in DOMAIN FinalIndex
            /\ n \notin BuiltNames => FinalIndex[n] = PriorIndex.val[n]
            /\ n \in BuiltNames =>
                  \A v \in DOMAIN PriorIndex.val[n].versions \ {DeclaredVersion(n)} :
                      /\ v \in DOMAIN FinalIndex[n].versions
                      /\ FinalIndex[n].versions[v] = PriorIndex.val[n].versions[v]

\* a run has left one indexed package alone and added a version to another
C3_Witness ==
    /\ BuildDone
    /\ exitCode = "0"
    /\ \E n \in DOMAIN PriorIndex.val : n \notin BuiltNames
    /\ \E n \in DOMAIN PriorIndex.val \cap BuiltNames :
          /\ DeclaredVersion(n) \notin DOMAIN PriorIndex.val[n].versions
          /\ Cardinality(DOMAIN FinalIndex[n].versions) = 2

\* the archives of the pool a repair run reads successfully, as (name, version)
ValidArchives(fs) ==
    LET built == get_built_packages(CHOOSE e \in Perms(DOMAIN fs) : TRUE).val
    IN  UNION {{<<built[i][1], built[i][2][j]>> : j \in
                    {j \in 1..Len(built[i][2]) :
                        IsValue(read_package(fs, built[i][1], built[i][2][j]))}} :
                i \in 1..Len(built)}

\* C4: repair completeness.  A repair run over a pool of archives that decode and
\* of archives that do not ends with exit code 0 and writes an index whose version
\* entries are exactly the (name, version) pairs of the archives that decode.
C4_RepairCompleteness ==
    (pc = "done" /\ mode = "repair") =>
        /\ exitCode = "0"
        /\ indexWrites = 1
        /\ IndexPairs(FinalIndex) = ValidArchives(pool)

\* C5: in build mode index.json is written exactly when no error reaches the
\* handler of line 229.  It is never written while the loop runs; a run that
\* caught no error has visited every package, exits 0 and has written the index
\* once, the dump of `packages`; a run that caught one exits 1 and leaves
\* index.json as it was before the run.
C5_IndexWrittenIffNoFatal ==
    /\ (mode = "build" /\ pc = "loop") =>
          indexWrites = 0 /\ indexFile = indexAtStart /\ error = ""
    /\ (BuildDone /\ error = "") =>
          /\ exitCode = "0"
          /\ manifestsRead = DOMAIN srcManifest
          /\ indexWrites = 1
          /\ indexFile = json_dumps(packages)
    /\ (BuildDone /\ error # "") =>
          /\ exitCode = "1"
          /\ indexWrites = 0
          /\ indexFile = indexAtStart

\* a run started from an index has been aborted in the loop after it wrote an
\* archive
C5_Witness ==
    /\ BuildDone
    /\ error # ""
    /\ exitCode = "1"
    /\ written # {}
    /\ Exists(indexAtStart)
    /\ PriorIndex.exc = ""
    /\ packages # PriorIndex.val

\* C6: a build run that finds an index.json it cannot parse exits with code 1
\* before the loop: no manifest has been read, no archive written, the pool and
\* index.json are as they were.
C6_UnparseableIndexFatal ==
    (mode = "build" /\ pc # "idle" /\ PriorUnparseable) =>
        /\ pc = "done"
        /\ exitCode = "1"
        /\ manifestsRead = {}
        /\ written = {}
        /\ pool = poolAtStart
        /\ indexWrites = 0
        /\ indexFile = indexAtStart

\* a build run over a non-empty pool and source tree has found a damaged index
C6_Witness ==
    /\ BuildDone
    /\ PriorUnparseable
    /\ exitCode = "1"
    /\ DOMAIN pool # {}
    /\ \E n \in DOMAIN srcManifest : HasAllFields(n)

\* C7: the index is rederivable from the pool.  After successful build runs only,
\* started from an empty pool without index, a repair run writes, whatever order
\* the pool is listed in, the index the last build run wrote.
C7_IndexRederivable ==
    (pc = "done" /\ mode = "repair" /\ hist = "builds_repair") =>
        /\ exitCode = "0"
        /\ indexFile = indexAtStart

\* C8: build idempotence.  A build run that directly follows a build run, the
\* source tree, the pool and the index untouched in between, leaves the pool files
\* and index.json exactly as the first run left them.
C8_BuildIdempotence ==
    (BuildDone /\ rerun) => pool = poolAtStart /\ indexFile = indexAtStart

\* a second build run in a row has rewritten archives and the index
C8_Witness ==
    /\ BuildDone
    /\ rerun
    /\ exitCode = "0"
    /\ Cardinality(written) = 2
    /\ indexWrites = 1

\* versions get_built_packages lists for the name n, the pool fs listed in some order
ListedVersions(fs, n) ==
    LET built == get_built_packages(CHOOSE e \in Perms(DOMAIN fs) : TRUE)
    IN  IF built.exc # "" THEN {}
        ELSE UNION {{built.val[i][2][j] : j \in 1..Len(built.val[i][2])} :
                      i \in {i \in 1..Len(built.val) : built.val[i][1] = n}}

\* C9: pool enumeration recovers archive identity.  Once the pool writer has
\* written the archive of name n and version v, get_built_packages lists v among
\* the versions of n, and the archives this run wrote for distinct packages are
\* distinct files.
C9_EnumerationRecoversIdentity ==
    (mode = "build" /\ pc \in {"loop", "done"} /\ IsValue(package)) =>
        /\ package.val.manifest["version"] \in ListedVersions(pool, name)
        /\ \A w1, w2 \in written : w1[2] = w2[2] => w1[1] = w2[1]

====
